---- MODULE Spec2Model ----
(***************************************************************************)
(* Shannon-Fano and Huffman compression (Shannon_Huffman.py).              *)
(*                                                                         *)
(* Representation                                                          *)
(*   symbol     an integer of 1..NumSymbols (a character of the text)      *)
(*   text       a sequence of symbols                                      *)
(*   bit string a sequence of 0/1 (the characters '0' and '1')             *)
(*   dict       a function; analyze_frequencies, whose iteration order the *)
(*              code uses, is the sequence of its items in insertion order *)
(*   tree node  a record: a leaf has the fields char, freq; an internal    *)
(*              node has the fields freq, left, right                      *)
(*   bytes      a sequence of integers of 0..255                           *)
(***************************************************************************)
EXTENDS Integers, Sequences, FiniteSets

\* ------------------------------------------------------------------ bounds
NumSymbols == 3
MaxLen == 5
RecursionLimit == 6
MaxItems == 4
MaxFreq == 4
MaxCodeLen == 2
MaxTableSize == 5
MaxCount == 5
MaxLoopSize == 4

Symbols == 1..NumSymbols
Texts == UNION {[1..n -> Symbols] : n \in 0..MaxLen}

\* --------------------------------------------------------- python values
None == [type |-> "NoneType"]
RecursionError == [exc |-> "RecursionError"]
TypeError == [exc |-> "TypeError"]
KeyError == [exc |-> "KeyError"]
EmptyDict == [c \in {} |-> <<>>]

IsExc(v) == "exc" \in DOMAIN v

\* dict.update: the entries of b replace and extend those of a
update(a, b) ==
  [c \in (DOMAIN a) \cup (DOMAIN b) |-> IF c \in DOMAIN b THEN b[c] ELSE a[c]]

\* ------------------------------------------------------- shared utilities
Count(text, c) == Cardinality({i \in DOMAIN text : text[i] = c})

\* the keys of Counter(text), in insertion (first occurrence) order
RECURSIVE CounterKeys(_, _)
CounterKeys(text, n) ==
  IF n = 0 THEN <<>>
  ELSE LET prev == CounterKeys(text, n - 1)
       IN IF \E j \in 1..(n - 1) : text[j] = text[n]
          THEN prev
          ELSE Append(prev, text[n])

\* dict(Counter(text)) as the sequence of its items
analyze_frequencies(text) ==
  LET keys == CounterKeys(text, Len(text))
  IN [k \in 1..Len(keys) |-> <<keys[k], Count(text, keys[k])>>]

\* ''.join(code_table[char] for char in text)
RECURSIVE JoinCodes(_, _)
JoinCodes(text, code_table) ==
  IF text = <<>> THEN <<>>
  ELSE code_table[Head(text)] \o JoinCodes(Tail(text), code_table)

\* int(byte, 2): the value of a bit string, most significant bit first
RECURSIVE int2(_)
int2(byte) ==
  IF byte = <<>> THEN 0
  ELSE 2 * int2(SubSeq(byte, 1, Len(byte) - 1)) + byte[Len(byte)]

\* '0' * n
Zeros(n) == [k \in 1..n |-> 0]

\* the padding without its outer `% 8`
encode_padding_nomod(bits) == 8 - (Len(bits) % 8)

\* padding = (8 - len(bits) % 8) % 8
encode_padding(bits) == (8 - (Len(bits) % 8)) % 8

\* encode_text: <<bytes, padding>>
encode_text(text, code_table) ==
  LET bits == JoinCodes(text, code_table)
      padding == encode_padding(bits)
      padded == bits \o Zeros(padding)
      byte_array == [k \in 1..(Len(padded) \div 8) |->
                       int2(SubSeq(padded, 8 * (k - 1) + 1, 8 * k))]
  IN <<byte_array, padding>>

\* 2^n
RECURSIVE Pow2(_)
Pow2(n) == IF n = 0 THEN 1 ELSE 2 * Pow2(n - 1)

\* format(byte, '08b')
format08b(byte) == [k \in 1..8 |-> (byte \div Pow2(8 - k)) % 2]

\* bytes_to_bits
RECURSIVE bytes_to_bits(_)
bytes_to_bits(data) ==
  IF data = <<>> THEN <<>>
  ELSE format08b(Head(data)) \o bytes_to_bits(Tail(data))

\* the padding left on the bits
strip_padding_none(bits, padding) == bits

\* bits[:-padding] when padding > 0, bits otherwise
strip_padding(bits, padding) ==
  IF padding > 0
  THEN SubSeq(bits, 1, IF Len(bits) > padding THEN Len(bits) - padding ELSE 0)
  ELSE bits

\* ------------------------------------------------------------ Shannon-Fano
\* float('inf')
Inf == -1

Abs(x) == IF x < 0 THEN 0 - x ELSE x

\* sum(freq for _, freq in items)
RECURSIVE SumFreq(_)
SumFreq(items) ==
  IF items = <<>> THEN 0 ELSE Head(items)[2] + SumFreq(Tail(items))

\* diff < min_diff, on the doubled values 2*diff and 2*min_diff
\* (half = total / 2.0 is exact, so doubling keeps every comparison)
LessDiff(diff2, min_diff2) == min_diff2 = Inf \/ diff2 < min_diff2

\* the loop of shannon_fano_split from index i (1-based) on:
\* the value of best_split when the loop ends
RECURSIVE split_loop(_, _, _, _, _, _)
split_loop(items, total, i, cumulative, best_split, min_diff2) ==
  IF i > Len(items) THEN best_split
  ELSE LET cum == cumulative + items[i][2]
           diff2 == Abs(2 * cum - total)
       IN IF LessDiff(diff2, min_diff2)
          THEN split_loop(items, total, i + 1, cum, i, diff2)
          ELSE split_loop(items, total, i + 1, cum, best_split, min_diff2)

Max(a, b) == IF a > b THEN a ELSE b
Min(a, b) == IF a < b THEN a ELSE b

\* the first-minimum scan with '<=' for '<' (last minimum wins)
RECURSIVE split_loop_last(_, _, _, _, _, _)
split_loop_last(items, total, i, cumulative, best_split, min_diff2) ==
  IF i > Len(items) THEN best_split
  ELSE LET cum == cumulative + items[i][2]
           diff2 == Abs(2 * cum - total)
       IN IF min_diff2 = Inf \/ diff2 <= min_diff2
          THEN split_loop_last(items, total, i + 1, cum, i, diff2)
          ELSE split_loop_last(items, total, i + 1, cum, best_split, min_diff2)

shannon_fano_split_last(items) ==
  Max(1, Min(split_loop_last(items, SumFreq(items), 1, 0, 1, Inf),
             Len(items) - 1))

\* shannon_fano_split: the number of items of the left partition
shannon_fano_split(items) ==
  Max(1, Min(split_loop(items, SumFreq(items), 1, 0, 1, Inf), Len(items) - 1))

\* items[:split] and items[split:] (slices clip to the list)
SliceTo(items, split) == SubSeq(items, 1, Min(split, Len(items)))
SliceFrom(items, split) == SubSeq(items, Min(split, Len(items)) + 1, Len(items))

Leaf(char, freq) == [char |-> char, freq |-> freq]

\* an internal node that lost its right child
InternalNoRight(freq, left, right) == [freq |-> freq, left |-> left]

Internal(freq, left, right) == [freq |-> freq, left |-> left, right |-> right]

\* build_shannon_tree at call depth `depth`: the tree, or RecursionError when
\* the interpreter's stack (RecursionLimit frames) is exhausted
RECURSIVE build_shannon_tree_at(_, _)
build_shannon_tree_at(items, depth) ==
  IF depth > RecursionLimit THEN RecursionError
  ELSE IF Len(items) = 1 THEN Leaf(items[1][1], items[1][2])
  ELSE LET split == shannon_fano_split(items)
           left == build_shannon_tree_at(SliceTo(items, split), depth + 1)
       IN IF IsExc(left) THEN left
          ELSE LET right ==
                     build_shannon_tree_at(SliceFrom(items, split), depth + 1)
               IN IF IsExc(right) THEN right
                  ELSE Internal(SumFreq(items), left, right)

build_shannon_tree(items) == build_shannon_tree_at(items, 1)

\* sorted(frequencies.items(), key=lambda x: x[1], reverse=True): a stable
\* sort, so items of equal frequency keep their insertion order
RECURSIVE sorted_by_freq_desc(_)
sorted_by_freq_desc(items) ==
  IF items = <<>> THEN <<>>
  ELSE LET n == Len(items)
           front == sorted_by_freq_desc(SubSeq(items, 1, n - 1))
           x == items[n]
           k == Cardinality({j \in DOMAIN front : front[j][2] >= x[2]})
       IN SubSeq(front, 1, k) \o <<x>> \o SubSeq(front, k + 1, Len(front))

\* ------------------------------------------------------------- code table
\* generate_codes giving both children the bit '0'
RECURSIVE generate_codes_samebit(_, _)
generate_codes_samebit(tree, prefix) ==
  IF "char" \in DOMAIN tree
  THEN [c \in {tree.char} |-> IF prefix # <<>> THEN prefix ELSE <<0>>]
  ELSE LET l == IF "left" \in DOMAIN tree
                THEN generate_codes_samebit(tree.left, Append(prefix, 0))
                ELSE EmptyDict
           r == IF "right" \in DOMAIN tree
                THEN generate_codes_samebit(tree.right, Append(prefix, 0))
                ELSE EmptyDict
       IN update(l, r)

\* generate_codes: the dict of codes of a tree
RECURSIVE generate_codes(_, _)
generate_codes(tree, prefix) ==
  IF "char" \in DOMAIN tree
  THEN [c \in {tree.char} |-> IF prefix # <<>> THEN prefix ELSE <<0>>]
  ELSE LET l == IF "left" \in DOMAIN tree
                THEN generate_codes(tree.left, Append(prefix, 0))
                ELSE EmptyDict
           r == IF "right" \in DOMAIN tree
                THEN generate_codes(tree.right, Append(prefix, 1))
                ELSE EmptyDict
       IN update(l, r)

\* ------------------------------------------------------------------ state
VARIABLES
  text,             \* the text given to the compress call
  pc,               \* the caller's position: "idle", "push", "merge",
                    \* "compressed", "decode", "arithmetic_decode",
                    \* "decompressed", "raised",
                    \* "split", "split_done" for a bare split call and
                    \* "pack", "packed" for a bare encode_text call,
                    \* "built" after a bare build_huffman_tree call
  algo,             \* the compress function called: "shannon", "huffman",
                    \* "arithmetic" ("none" before the call)
  frequencies,      \* analyze_frequencies(text)
  items,            \* the list given to the Shannon-Fano functions
  heap,             \* build_huffman_tree: the entries <<freq, node>> in
                    \* the order of their keys (freq, id)
  tree,             \* the tree returned by the compress call
  prev_tree,        \* the Huffman tree of the preceding compress call
  code_table,       \* the code table returned by the compress call
  compressed_data,  \* the bytes returned by the compress call
  padding,          \* the padding returned by the compress call
  corrupt,          \* shannon_fano_decompress / huffman_decompress got other
                    \* bytes or padding than compress returned
  bits,             \* decode_bits, arithmetic_decompress: bits, after the
                    \* padding is dropped
  i,                \* index of the next bit of their for loop
  node,             \* their node
  result,           \* their result
  exc,              \* the exception raised ("none" if none)
  best_split        \* the value returned by a bare shannon_fano_split call

vars == <<text, pc, algo, frequencies, items, heap, tree, prev_tree,
          code_table, compressed_data, padding, corrupt, bits, i, node,
          result, exc, best_split>>

compress_vars == <<tree, code_table, compressed_data, padding>>
decode_vars == <<corrupt, bits, i, node, result>>

Init ==
  /\ text \in Texts
  /\ pc = "idle"
  /\ algo = "none"
  /\ frequencies = <<>>
  /\ items = <<>>
  /\ heap = <<>>
  /\ tree = None
  /\ prev_tree = None
  /\ code_table = EmptyDict
  /\ compressed_data = <<>>
  /\ padding = 0
  /\ corrupt = FALSE
  /\ bits = <<>>
  /\ i = 1
  /\ node = None
  /\ result = <<>>
  /\ exc = "none"
  /\ best_split = 0

\* the statement `raise e` reaching the caller
Raise(e) == pc' = "raised" /\ exc' = e.exc

\* generate_codes(tree), encode_text(text, code_table) and the return of a
\* compress function whose tree is t
FinishCompress(t) ==
  IF t = None
  THEN \* generate_codes(None): `'char' in tree` raises TypeError
       Raise(TypeError) /\ UNCHANGED compress_vars
  ELSE LET ct == generate_codes(t, <<>>)
           enc == encode_text(text, ct)
       IN IF \E k \in DOMAIN text : text[k] \notin DOMAIN ct
          THEN \* encode_text: `code_table[char]` raises KeyError
               Raise(KeyError) /\ UNCHANGED compress_vars
          ELSE /\ tree' = t
               /\ code_table' = ct
               /\ compressed_data' = enc[1]
               /\ padding' = enc[2]
               /\ pc' = "compressed"
               /\ exc' = exc

\* shannon_fano_compress(text)
ShannonFanoCompress ==
  /\ pc = "idle"
  /\ algo' = "shannon"
  /\ frequencies' = analyze_frequencies(text)
  /\ items' = sorted_by_freq_desc(frequencies')
  /\ LET t == build_shannon_tree(items')
     IN IF IsExc(t)
        THEN Raise(t) /\ UNCHANGED compress_vars
        ELSE FinishCompress(t)
  /\ UNCHANGED <<text, heap, prev_tree, decode_vars, best_split>>

\* heap.insert(0, entry) for heapq.heappush: a stack, the entry goes in front
PushPositions_front(h, freq) == {1}

\* list.insert for heapq.heappush: the entry goes anywhere, whatever its freq
PushPositions_any(h, freq) == 1..(Len(h) + 1)

\* heapq.heappush(heap, (freq, id(x), n)): the entry goes among the entries
\* of equal freq at the place its id gives it. id(x) is an address, distinct
\* from the id of every other live object and otherwise arbitrary
PushPositions(h, freq) ==
  {p \in 1..(Len(h) + 1) :
     /\ \A j \in 1..(p - 1) : h[j][1] <= freq
     /\ \A j \in p..Len(h) : h[j][1] >= freq}

InsertAt(h, p, entry) == SubSeq(h, 1, p - 1) \o <<entry>> \o SubSeq(h, p, Len(h))

\* huffman_compress(text), up to the for loop of build_huffman_tree
HuffmanCompress ==
  /\ pc = "idle"
  /\ algo' = "huffman"
  /\ frequencies' = analyze_frequencies(text)
  /\ heap' = <<>>
  /\ pc' = IF frequencies' = <<>> THEN "merge" ELSE "push"
  /\ UNCHANGED <<text, items, prev_tree, compress_vars, decode_vars, exc,
                 best_split>>

\* build_huffman_tree: one iteration of `for char, freq in frequencies.items()`
HuffPush ==
  /\ pc = "push"
  /\ LET k == Len(heap) + 1
         char == frequencies[k][1]
         freq == frequencies[k][2]
     IN /\ \E p \in PushPositions(heap, freq) :
             heap' = InsertAt(heap, p, <<freq, Leaf(char, freq)>>)
        /\ pc' = IF k = Len(frequencies) THEN "merge" ELSE "push"
  /\ UNCHANGED <<text, algo, frequencies, items, prev_tree, compress_vars,
                 decode_vars, exc, best_split>>

\* build_huffman_tree: one iteration of `while len(heap) > 1`
HuffMerge ==
  /\ pc = "merge"
  /\ Len(heap) > 1
  /\ LET freq1 == heap[1][1]
         left == heap[1][2]
         freq2 == heap[2][1]
         right == heap[2][2]
         rest == SubSeq(heap, 3, Len(heap))
         merged == Internal(freq1 + freq2, left, right)
     IN \E p \in PushPositions(rest, freq1 + freq2) :
          heap' = InsertAt(rest, p, <<freq1 + freq2, merged>>)
  /\ UNCHANGED <<text, pc, algo, frequencies, items, prev_tree, compress_vars,
                 decode_vars, exc, best_split>>

\* build_huffman_tree returns; the rest of the compress function
HuffReturn ==
  /\ pc = "merge"
  /\ Len(heap) <= 1
  /\ FinishCompress(IF heap # <<>> THEN heap[1][2] ELSE None)
  /\ UNCHANGED <<text, algo, frequencies, items, heap, prev_tree, decode_vars,
                 best_split>>

\* arithmetic_compress(text), called first or after huffman_compress(text):
\* its tree is built by build_huffman_tree from the same frequencies
ArithmeticCompress ==
  /\ pc = "idle" \/ (pc = "compressed" /\ algo = "huffman")
  /\ algo' = "arithmetic"
  /\ prev_tree' = tree
  /\ IF text = <<>>
     THEN /\ frequencies' = frequencies
          /\ heap' = heap
          /\ tree' = None
          /\ code_table' = EmptyDict
          /\ compressed_data' = <<>>
          /\ padding' = 0
          /\ pc' = "compressed"
     ELSE /\ frequencies' = analyze_frequencies(text)
          /\ heap' = <<>>
          /\ pc' = "push"
          /\ UNCHANGED compress_vars
  /\ UNCHANGED <<text, items, decode_vars, exc, best_split>>

\* decode_bits(bits, tree, pad) up to its for loop
StartDecode(data, pad) ==
  /\ bits' = strip_padding(bytes_to_bits(data), pad)
  /\ result' = <<>>
  /\ node' = tree
  /\ i' = 1
  /\ pc' = "decode"

\* shannon_fano_decompress / huffman_decompress on what compress returned
Decompress ==
  /\ pc = "compressed"
  /\ algo \in {"shannon", "huffman"}
  /\ StartDecode(compressed_data, padding)
  /\ corrupt' = FALSE
  /\ UNCHANGED <<text, algo, frequencies, items, heap, prev_tree,
                 compress_vars, exc, best_split>>

\* the same call on a payload that lost trailing bytes or whose padding
\* count was altered
DecompressCorrupt ==
  /\ pc = "compressed"
  /\ algo \in {"shannon", "huffman"}
  /\ \E n \in 0..Len(compressed_data), pad \in 0..7 :
       /\ <<n, pad>> # <<Len(compressed_data), padding>>
       /\ StartDecode(SubSeq(compressed_data, 1, n), pad)
  /\ corrupt' = TRUE
  /\ UNCHANGED <<text, algo, frequencies, items, heap, prev_tree,
                 compress_vars, exc, best_split>>

\* decode_bits: one iteration of `for bit in bits`
DecodeStep ==
  /\ pc = "decode"
  /\ i <= Len(bits)
  /\ LET key == IF bits[i] = 0 THEN "left" ELSE "right"
     IN IF key \notin DOMAIN node
        THEN Raise(KeyError) /\ UNCHANGED <<i, node, result>>
        ELSE LET child == node[key]
             IN /\ IF "char" \in DOMAIN child
                   THEN result' = Append(result, child.char) /\ node' = tree
                   ELSE result' = result /\ node' = child
                /\ i' = i + 1
                /\ UNCHANGED <<pc, exc>>
  /\ UNCHANGED <<text, algo, frequencies, items, heap, prev_tree,
                 compress_vars, corrupt, bits, best_split>>

\* decode_bits: the loop is over, `return ''.join(result)`
DecodeReturn ==
  /\ pc = "decode"
  /\ i > Len(bits)
  /\ pc' = "decompressed"
  /\ UNCHANGED <<text, algo, frequencies, items, heap, prev_tree,
                 compress_vars, decode_vars, exc, best_split>>

Next ==
  \/ ShannonFanoCompress
  \/ HuffmanCompress
  \/ HuffPush
  \/ HuffMerge
  \/ HuffReturn
  \/ Decompress
  \/ DecodeStep
  \/ DecodeReturn

Spec == Init /\ [][Next]_vars

\* the caller also hands decompress a damaged payload
NextCorrupt == Next \/ DecompressCorrupt

SpecCorrupt == Init /\ [][NextCorrupt]_vars

\* arithmetic_decompress(compressed_data, metadata, padding) up to its for
\* loop, on what arithmetic_compress returned. The caller passes the padding
\* it was given or, as demo_equivalence does, leaves it at its default 0,
\* and then the padding bits stay on the bits. metadata is {} exactly when
\* arithmetic_compress returned without a tree
ArithmeticDecompress ==
  /\ pc = "compressed"
  /\ algo = "arithmetic"
  /\ IF compressed_data = <<>> \/ tree = None
     THEN \* `return ""`
          /\ result' = <<>>
          /\ pc' = "decompressed"
          /\ UNCHANGED <<bits, i, node>>
     ELSE \E pad \in {0, padding} :
            /\ bits' = strip_padding(bytes_to_bits(compressed_data), pad)
            /\ result' = <<>>
            /\ node' = tree
            /\ i' = 1
            /\ pc' = "arithmetic_decode"
  /\ UNCHANGED <<text, algo, frequencies, items, heap, prev_tree,
                 compress_vars, corrupt, exc, best_split>>

\* arithmetic_decompress: one iteration of `for bit in bits`
ArithmeticDecodeStep ==
  /\ pc = "arithmetic_decode"
  /\ i <= Len(bits)
  /\ LET key == IF bits[i] = 0 THEN "left" ELSE "right"
     IN IF key \notin DOMAIN node
        THEN Raise(KeyError) /\ UNCHANGED <<i, node, result>>
        ELSE LET child == node[key]
             IN /\ IF "char" \in DOMAIN child
                   THEN result' = Append(result, child.char) /\ node' = tree
                   ELSE result' = result /\ node' = child
                /\ i' = i + 1
                /\ UNCHANGED <<pc, exc>>
  /\ UNCHANGED <<text, algo, frequencies, items, heap, prev_tree,
                 compress_vars, corrupt, bits, best_split>>

\* arithmetic_decompress: the loop is over, `return ''.join(result)`
ArithmeticDecodeReturn ==
  /\ pc = "arithmetic_decode"
  /\ i > Len(bits)
  /\ pc' = "decompressed"
  /\ UNCHANGED <<text, algo, frequencies, items, heap, prev_tree,
                 compress_vars, decode_vars, exc, best_split>>

\* the caller also runs arithmetic_compress and arithmetic_decompress, as
\* demo_equivalence does
NextDemo ==
  \/ Next
  \/ ArithmeticCompress
  \/ ArithmeticDecompress
  \/ ArithmeticDecodeStep
  \/ ArithmeticDecodeReturn

SpecDemo == Init /\ [][NextDemo]_vars

\* ---------------------------------------- shannon_fano_split on any list
\* the lists of 2..MaxItems items <<symbol, frequency>> of distinct symbols
ItemLists ==
  UNION {{[k \in 1..n |-> <<k, f[k]>>] : f \in [1..n -> 1..MaxFreq]} :
           n \in 2..MaxItems}

InitSplit ==
  /\ items \in ItemLists
  /\ pc = "split"
  /\ text = <<>>
  /\ algo = "none"
  /\ frequencies = <<>>
  /\ heap = <<>>
  /\ tree = None
  /\ prev_tree = None
  /\ code_table = EmptyDict
  /\ compressed_data = <<>>
  /\ padding = 0
  /\ corrupt = FALSE
  /\ bits = <<>>
  /\ i = 1
  /\ node = None
  /\ result = <<>>
  /\ exc = "none"
  /\ best_split = 0

\* split = shannon_fano_split(items)
ApplySplit ==
  /\ pc = "split"
  /\ best_split' = shannon_fano_split(items)
  /\ pc' = "split_done"
  /\ UNCHANGED <<text, algo, frequencies, items, heap, prev_tree,
                 compress_vars, decode_vars, exc>>

NextSplit == ApplySplit

SpecSplit == InitSplit /\ [][NextSplit]_vars

\* ------------------------------------------- encode_text on any code table
\* a code of n bits
CodeOfLen(n) == [k \in 1..n |-> IF k = n THEN 0 ELSE 1]

\* the code tables that give every symbol a code of 1..MaxCodeLen bits
PackTables == [Symbols -> {CodeOfLen(n) : n \in 1..MaxCodeLen}]

InitPack ==
  /\ text \in Texts
  /\ code_table \in PackTables
  /\ pc = "pack"
  /\ algo = "none"
  /\ frequencies = <<>>
  /\ items = <<>>
  /\ heap = <<>>
  /\ tree = None
  /\ prev_tree = None
  /\ compressed_data = <<>>
  /\ padding = 0
  /\ corrupt = FALSE
  /\ bits = <<>>
  /\ i = 1
  /\ node = None
  /\ result = <<>>
  /\ exc = "none"
  /\ best_split = 0

\* compressed_data, padding = encode_text(text, code_table)
ApplyPack ==
  /\ pc = "pack"
  /\ LET enc == encode_text(text, code_table)
     IN /\ compressed_data' = enc[1]
        /\ padding' = enc[2]
  /\ pc' = "packed"
  /\ UNCHANGED <<text, algo, frequencies, items, heap, tree, prev_tree,
                 code_table, decode_vars, exc, best_split>>

NextPack == ApplyPack

SpecPack == InitPack /\ [][NextPack]_vars

\* ------------------------------ build_huffman_tree on any frequency table
\* the frequency tables of 0..size symbols with counts of 1..MaxCount,
\* iterated by non-increasing count: the heap orders its entries by
\* (freq, id), whatever the order they are pushed in
FreqLists(size) ==
  UNION {{[k \in 1..n |-> <<k, f[k]>>] :
            f \in {g \in [1..n -> 1..MaxCount] :
                     \A k \in 1..(n - 1) : g[k] >= g[k + 1]}} :
           n \in 0..size}

InitBuildOf(size) ==
  /\ frequencies \in FreqLists(size)
  /\ pc = IF frequencies = <<>> THEN "merge" ELSE "push"
  /\ text = <<>>
  /\ algo = "none"
  /\ items = <<>>
  /\ heap = <<>>
  /\ tree = None
  /\ prev_tree = None
  /\ code_table = EmptyDict
  /\ compressed_data = <<>>
  /\ padding = 0
  /\ corrupt = FALSE
  /\ bits = <<>>
  /\ i = 1
  /\ node = None
  /\ result = <<>>
  /\ exc = "none"
  /\ best_split = 0

\* tree = build_huffman_tree(frequencies) returns, then
\* code_table = generate_codes(tree)
BuildReturn ==
  /\ pc = "merge"
  /\ Len(heap) <= 1
  /\ LET t == IF heap # <<>> THEN heap[1][2] ELSE None
     IN IF t = None
        THEN \* generate_codes(None): `'char' in tree` raises TypeError
             Raise(TypeError) /\ UNCHANGED <<tree, code_table>>
        ELSE /\ tree' = t
             /\ code_table' = generate_codes(t, <<>>)
             /\ pc' = "built"
             /\ exc' = exc
  /\ UNCHANGED <<text, algo, frequencies, items, heap, prev_tree,
                 compressed_data, padding, decode_vars, best_split>>

NextBuild == HuffPush \/ HuffMerge \/ BuildReturn

InitBuild == InitBuildOf(MaxTableSize)

SpecBuild == InitBuild /\ [][NextBuild]_vars

InitLoop == InitBuildOf(MaxLoopSize)

\* the function runs to its return: no step of it waits for anything
SpecLoop == InitLoop /\ [][NextBuild]_vars /\ WF_vars(NextBuild)

\* ================================================================ claims
IsPrefix(a, b) == Len(a) <= Len(b) /\ SubSeq(b, 1, Len(a)) = a

PrefixFree(ct) ==
  \A c \in DOMAIN ct : \A d \in DOMAIN ct : c # d => ~IsPrefix(ct[c], ct[d])

SymbolsOf(t) == {t[k] : k \in DOMAIN t}

\* the frequency table of a text, without its iteration order
FreqTable(t) == [c \in SymbolsOf(t) |-> Count(t, c)]

\* the number of code bits of the text
RECURSIVE TotalBits(_, _)
TotalBits(t, ct) ==
  IF t = <<>> THEN 0 ELSE Len(ct[Head(t)]) + TotalBits(Tail(t), ct)

\* a leaf has no child, an internal node has both
RECURSIVE FullTree(_)
FullTree(t) ==
  IF "char" \in DOMAIN t
  THEN DOMAIN t = {"char", "freq"}
  ELSE /\ DOMAIN t = {"freq", "left", "right"}
       /\ FullTree(t.left)
       /\ FullTree(t.right)

\* a compress call has returned
Returned == pc \in {"compressed", "decode", "decompressed"}

\* C1: decompress(compress(S)) = S for every text S, the empty text and a
\* text of one repeated symbol included: neither call raises, and the
\* decompress call given what compress returned returns S.
C1_RoundTrip ==
  ~corrupt =>
    /\ pc # "raised"
    /\ pc = "decompressed" => result = text

\* C2: with at least two distinct symbols, either builder's code table gives
\* every symbol of the text a non-empty code, and no code is a prefix of the
\* code of another symbol.
C2_PrefixFree ==
  (Returned /\ Len(frequencies) >= 2) =>
    /\ DOMAIN code_table = SymbolsOf(text)
    /\ \A c \in DOMAIN code_table : code_table[c] # <<>>
    /\ PrefixFree(code_table)

C2_Witness ==
  /\ pc = "compressed"
  /\ algo = "shannon"
  /\ Cardinality(DOMAIN code_table) >= 3
  /\ \E c \in DOMAIN code_table : Len(code_table[c]) >= 2

\* C3: decode_bits never returns a result when the bits run out while the
\* traversal is not at the root: it signals an error instead.
C3_CorruptSignalled == pc = "decompressed" => node = tree

\* C4: compress of the empty text returns empty bytes, no tree and padding
\* 0 without raising, and decompress of that returns the empty text.
C4_EmptyInput ==
  text = <<>> =>
    /\ pc # "raised"
    /\ Returned => (compressed_data = <<>> /\ tree = None /\ padding = 0)
    /\ pc = "decompressed" => result = <<>>

\* C5: for a text of n >= 1 copies of one symbol s, compress returns the
\* single leaf of s, the code table {s: "0"} and ceil(n/8) zero bytes, and
\* decompress of that returns the text.
C5_SingleSymbol ==
  (Len(frequencies) = 1 /\ ~corrupt) =>
    /\ pc # "raised"
    /\ Returned =>
         /\ tree = Leaf(text[1], Len(text))
         /\ code_table = [c \in {text[1]} |-> <<0>>]
         /\ Len(compressed_data) = (Len(text) + 7) \div 8
         /\ \A k \in DOMAIN compressed_data : compressed_data[k] = 0
         /\ (Len(text) + padding) % 8 = 0
    /\ pc = "decompressed" => result = text

\* C6: the padding p returned by encode_text is in 0..7, the code bits of
\* the text plus p are a multiple of 8, and the bytes returned number
\* ceil(code bits / 8): p = 0 and no further byte on a multiple of 8.
C6_PaddingBound ==
  (Returned \/ pc = "packed") =>
    LET total == TotalBits(text, code_table)
    IN /\ padding \in 0..7
       /\ (total + padding) % 8 = 0
       /\ Len(compressed_data) = (total + 7) \div 8
       /\ \A k \in DOMAIN compressed_data : compressed_data[k] \in 0..255

C6_Witness ==
  /\ pc = "packed"
  /\ TotalBits(text, code_table) = 8
  /\ padding = 0
  /\ Len(compressed_data) = 1

\* C7: for a non-empty text both builders return a tree, and every internal
\* node either builder makes has exactly two children, every leaf none.
C7_FullTree ==
  /\ (text # <<>> /\ Returned) => tree # None
  /\ tree # None => FullTree(tree)
  /\ \A k \in DOMAIN heap : FullTree(heap[k][2])

C7_Witness ==
  /\ pc = "compressed"
  /\ algo = "shannon"
  /\ "left" \in DOMAIN tree
  /\ "left" \in DOMAIN tree.right

\* C8: two runs of build_huffman_tree on the same frequency table return
\* the same tree.
C8_HuffmanDeterministic ==
  (algo = "arithmetic" /\ pc = "compressed" /\ prev_tree # None) =>
    tree = prev_tree

\* C9: equal-frequency items are ordered by their symbols, so any two texts
\* with the same frequency table get the same Shannon-Fano tree.
C9_ShannonOrder ==
  (algo = "shannon" /\ pc = "compressed") =>
    \A t \in Texts :
      FreqTable(t) = FreqTable(text) =>
        build_shannon_tree(sorted_by_freq_desc(analyze_frequencies(t))) = tree

\* |2 * (sum of the first k frequencies) - total|
SplitDiff2(l, k) == Abs(2 * SumFreq(SubSeq(l, 1, k)) - SumFreq(l))

\* C10: on n >= 2 items of positive frequency shannon_fano_split returns
\* the smallest k of 1..n-1 that minimises |sum of the first k frequencies
\* - total/2| over 1..n-1, so both partitions are non-empty.
C10_Split ==
  pc = "split_done" =>
    /\ best_split \in 1..(Len(items) - 1)
    /\ \A k \in 1..(Len(items) - 1) :
         /\ SplitDiff2(items, best_split) <= SplitDiff2(items, k)
         /\ k < best_split =>
              SplitDiff2(items, best_split) < SplitDiff2(items, k)
    /\ SliceTo(items, best_split) # <<>>
    /\ SliceFrom(items, best_split) # <<>>

C10_Witness ==
  /\ pc = "split_done"
  /\ \E k \in (best_split + 1)..(Len(items) - 1) :
       SplitDiff2(items, k) = SplitDiff2(items, best_split)

\* the number of internal nodes of a tree
RECURSIVE Internals(_)
Internals(t) ==
  IF "char" \in DOMAIN t THEN 0 ELSE 1 + Internals(t.left) + Internals(t.right)

\* a step of the while loop of build_huffman_tree: the two entries removed
\* weigh no more than any entry that stays, and the entry added holds the
\* node of the two removed and weighs their sum
C11_MergeStep ==
  (pc = "merge" /\ pc' = "merge") =>
    /\ Len(heap) >= 2
    /\ Len(heap') = Len(heap) - 1
    /\ \A k \in 3..Len(heap) :
         heap[1][1] <= heap[k][1] /\ heap[2][1] <= heap[k][1]
    /\ \E p \in DOMAIN heap' :
         /\ heap'[p][1] = heap[1][1] + heap[2][1]
         /\ heap'[p][2] = [freq |-> heap[1][1] + heap[2][1],
                           left |-> heap[1][2], right |-> heap[2][2]]
         /\ SubSeq(heap', 1, p - 1) \o SubSeq(heap', p + 1, Len(heap'))
              = SubSeq(heap, 3, Len(heap))

\* when build_huffman_tree returns: one entry is left, its node is the tree,
\* n - 1 merges made it, and its weight is the total of the frequencies
C11_AtReturn ==
  pc = "built" =>
    /\ Len(heap) = 1
    /\ tree = heap[1][2]
    /\ Internals(tree) = Len(frequencies) - 1
    /\ tree.freq = SumFreq(frequencies)

\* C11: on a table of n >= 1 symbols the merge loop ends, after n - 1 merges,
\* with the root alone on the heap; every merge removes two entries of least
\* weight and adds one of their summed weight, so the root weighs the total
\* of the frequencies.
C11_MergeLoop ==
  /\ [][C11_MergeStep]_vars
  /\ [](C11_AtReturn)
  /\ [](pc = "raised" => frequencies = <<>>)
  /\ (frequencies # <<>>) ~> (pc = "built")

C11_Witness ==
  /\ pc = "built"
  /\ Len(frequencies) = MaxLoopSize
  /\ Internals(tree) = MaxLoopSize - 1
  /\ tree.freq = SumFreq(frequencies)

\* C12: decode_bits on what encode_text made of the text, with the tree of
\* the code table (two leaves or more): the bits it walks are the code bits
\* of the text and none of the padding; after every bit the symbols emitted
\* are a prefix of the text and the pointer is at an internal node, at the
\* root exactly when the bits consumed are the codes of the symbols emitted;
\* when the bits are used up the pointer is at the root and the whole text
\* is emitted.
C12_DecoderTraversal ==
  (pc \in {"decode", "decompressed"} /\ ~corrupt /\ Len(frequencies) >= 2) =>
    /\ Len(bits) = TotalBits(text, code_table)
    /\ Len(bits) + padding = 8 * Len(compressed_data)
    /\ i - 1 <= Len(bits)
    /\ IsPrefix(result, text)
    /\ "char" \notin DOMAIN node
    /\ node = tree <=> i - 1 = TotalBits(result, code_table)
    /\ i > Len(bits) => (node = tree /\ Len(result) = Len(text))
    /\ pc = "decompressed" => i > Len(bits)

C12_Witness ==
  /\ pc = "decode"
  /\ ~corrupt
  /\ Cardinality(DOMAIN code_table) >= 3
  /\ padding > 0
  /\ result # <<>>
  /\ node # tree

\* sum over the symbols of frequency x code length
RECURSIVE WeightedLength(_, _)
WeightedLength(freqs, ct) ==
  IF freqs = <<>> THEN 0
  ELSE Head(freqs)[2] * Len(ct[Head(freqs)[1]])
         + WeightedLength(Tail(freqs), ct)

\* no prefix code table of the symbols costs less than `least`. A prefix
\* code with the code lengths l[1], ..., l[n] exists exactly when its Kraft
\* sum, the sum of the 2^-l[k], is at most 1. The symbols are listed by
\* non-increasing frequency, so sorting the lengths of a table into
\* non-decreasing order keeps its Kraft sum and does not raise its cost: the
\* non-decreasing l are enough, and so are the lengths up to n: a cheapest
\* code is a full binary tree of n leaves, of depth n - 1 at most. This walks
\* every such l:
\* symbols 1..k-1 have their lengths, the last of them lo, at the cost
\* `cost`, and budget / 2^n of the Kraft sum is left for symbols k..n
RECURSIVE NoCheaperCode(_, _, _, _, _, _)
NoCheaperCode(freqs, least, k, lo, budget, cost) ==
  IF k > Len(freqs) THEN least <= cost
  ELSE \A v \in lo..Len(freqs) :
         Pow2(Len(freqs) - v) <= budget =>
           NoCheaperCode(freqs, least, k + 1, v,
                         budget - Pow2(Len(freqs) - v),
                         cost + freqs[k][2] * v)

\* C13: with two symbols or more, the weighted code length of the Huffman
\* code table is the least of all prefix code tables of the symbols (no
\* table costs less, and a table costing less than one bit more exists: the
\* Huffman table itself), and so at most that of the Shannon-Fano code table
\* of the same frequencies, however the ties of the heap fall.
C13_HuffmanOptimal ==
  (pc = "built" /\ Len(frequencies) >= 2) =>
    LET huffman == WeightedLength(frequencies, code_table)
        shannon ==
          WeightedLength(frequencies,
            generate_codes(
              build_shannon_tree(sorted_by_freq_desc(frequencies)), <<>>))
    IN /\ huffman <= shannon
       /\ PrefixFree(code_table)
       /\ NoCheaperCode(frequencies, huffman, 1, 1,
                        Pow2(Len(frequencies)), 0)
       /\ ~NoCheaperCode(frequencies, huffman + 1, 1, 1,
                         Pow2(Len(frequencies)), 0)

C13_Witness ==
  /\ pc = "built"
  /\ Len(frequencies) >= 2
  /\ WeightedLength(frequencies, code_table)
       < WeightedLength(frequencies,
           generate_codes(
             build_shannon_tree(sorted_by_freq_desc(frequencies)), <<>>))

====
